---- MODULE Spec2Model ----
(***************************************************************************)
(* Model of komorebi's Monitor (komorebi/src/monitor.rs): a ring of        *)
(* workspaces with a focused index and a persistent index -> name map.     *)
(* Indices are 0-based as in the source; sequence position i+1 holds the   *)
(* element with index i.  Two further specifications cover komorebi-core   *)
(* (komorebi-core/src/lib.rs): Sizing::adjust_by and the SocketMessage     *)
(* wire form.                                                              *)
(***************************************************************************)
EXTENDS Integers, Sequences, FiniteSets, TLC

VARIABLES workspaces, focused, workspace_names, last, track, ops,
          sizing, socket

vars == <<workspaces, focused, workspace_names, last, track, ops,
          sizing, socket>>

\* ---------------------------------------------------------------- bounds
MaxIdx == 2
MaxContainers == 2
MaxNames == 1
\* Number of calls made on the monitor in one behaviour.
MaxOps == 5

Indices == 0..MaxIdx
Counts == 0..(MaxIdx + 1)
ContainerIds == 1..MaxContainers
NoName == 0
Names == 1..MaxNames

Max(a, b) == IF a >= b THEN a ELSE b

\* ------------------------------------------------------------- workspace
\* Workspace::default(): no containers, no maximized window, no name.
DefaultWorkspace ==
    [containers |-> <<>>, focused |-> 0, maximized |-> FALSE,
     name |-> NoName, visible |-> FALSE]

\* Workspace::add_container: append, the added container becomes focused.
WsAddContainer(w, c) ==
    [w EXCEPT !.containers = Append(w.containers, c),
              !.focused = Len(w.containers)]

\* The container Workspace::remove_focused_container would return.
WsFocusedContainer(w) ==
    IF w.focused < Len(w.containers) THEN <<w.containers[w.focused + 1]>>
    ELSE <<>>

\* Workspace::remove_focused_container: remove it, focus the preceding one.
WsRemoveFocusedContainer(w) ==
    IF w.focused < Len(w.containers)
    THEN [w EXCEPT !.containers =
                       [i \in 1..(Len(w.containers) - 1) |->
                           IF i <= w.focused THEN w.containers[i]
                           ELSE w.containers[i + 1]],
                   !.focused = IF w.focused > 0 THEN w.focused - 1 ELSE 0]
    ELSE w

\* Workspace::set_name
WsSetName(w, n) == [w EXCEPT !.name = n]

\* ------------------------------------------------- the workspace sequence
\* VecDeque::resize(new_len, value): truncate or append clones of value.
Resize(ws, n) ==
    IF n <= Len(ws) THEN SubSeq(ws, 1, n)
    ELSE ws \o [i \in 1..(n - Len(ws)) |-> DefaultWorkspace]

\* A removal that always drops the last element (pop_back).
RemoveAt_back(ws, idx) == SubSeq(ws, 1, Len(ws) - 1)

\* VecDeque::remove(idx) for idx in bounds: later elements move down by one.
RemoveAt(ws, idx) ==
    [i \in 1..(Len(ws) - 1) |-> IF i <= idx THEN ws[i] ELSE ws[i + 1]]

\* Ring::focus(idx): sets the focused index unconditionally.
RingFocus(idx) == idx

\* The monitor as a value.
Mon(ws, f, names) == [workspaces |-> ws, focused |-> f, workspace_names |-> names]

M == Mon(workspaces, focused, workspace_names)

\* Result of an operation: the monitor afterwards, the result tag
\* ("Ok", "Err", "Some", "None"), the error message, a returned value.
Res(m, ret, err, val) == [m |-> m, ret |-> ret, err |-> err, val |-> val]

\* focused_workspace() / focused_workspace_mut(): is there an element at
\* the focused index?
HasFocusedWorkspace(m) == m.focused < Len(m.workspaces)

\* ------------------------------------------------------------ operations
\* focus_workspace growing the ring to idx instead of idx + 1.
focus_workspace_short(m, idx) ==
    LET grown == IF idx >= Len(m.workspaces)
                 THEN Resize(m.workspaces, idx)
                 ELSE m.workspaces
        name == m.workspace_names[idx]
    IN  IF name # NoName
        THEN IF idx < Len(grown)
             THEN Res(Mon([grown EXCEPT ![idx + 1] = WsSetName(@, name)],
                          RingFocus(idx), m.workspace_names),
                      "Ok", "", <<>>)
             ELSE Res(Mon(grown, RingFocus(idx), m.workspace_names),
                      "Err", "there is no workspace", <<>>)
        ELSE Res(Mon(grown, RingFocus(idx), m.workspace_names),
                 "Ok", "", <<>>)

\* focus_workspace without the lookup in the persistent name map.
focus_workspace_no_name(m, idx) ==
    LET grown == IF idx >= Len(m.workspaces)
                 THEN Resize(m.workspaces, idx + 1)
                 ELSE m.workspaces
    IN  Res(Mon(grown, RingFocus(idx), m.workspace_names), "Ok", "", <<>>)

\* Monitor::focus_workspace
focus_workspace(m, idx) ==
    LET grown == IF idx >= Len(m.workspaces)
                 THEN Resize(m.workspaces, idx + 1)
                 ELSE m.workspaces
        name == m.workspace_names[idx]
    IN  IF name # NoName
        THEN IF idx < Len(grown)
             THEN Res(Mon([grown EXCEPT ![idx + 1] = WsSetName(@, name)],
                          RingFocus(idx), m.workspace_names),
                      "Ok", "", <<>>)
             ELSE Res(Mon(grown, RingFocus(idx), m.workspace_names),
                      "Err", "there is no workspace", <<>>)
        ELSE Res(Mon(grown, RingFocus(idx), m.workspace_names),
                 "Ok", "", <<>>)

\* remove_workspace_by_idx focusing idx instead of idx - 1 in the fallback.
remove_workspace_by_idx_focus_idx(m, idx) ==
    IF idx < Len(m.workspaces)
    THEN Res(Mon(RemoveAt(m.workspaces, idx), m.focused, m.workspace_names),
             "Some", "", <<m.workspaces[idx + 1]>>)
    ELSE IF idx = 0
         THEN Res(Mon(Append(m.workspaces, DefaultWorkspace), m.focused,
                      m.workspace_names),
                  "None", "", <<>>)
         ELSE Res(focus_workspace(m, idx).m, "None", "", <<>>)

\* remove_workspace_by_idx that also moves the focus to the preceding
\* index after an in-bounds removal.
remove_workspace_by_idx_refocus(m, idx) ==
    IF idx < Len(m.workspaces)
    THEN Res(Mon(RemoveAt(m.workspaces, idx),
                 RingFocus(IF idx > 0 THEN idx - 1 ELSE 0), m.workspace_names),
             "Some", "", <<m.workspaces[idx + 1]>>)
    ELSE IF idx = 0
         THEN Res(Mon(Append(m.workspaces, DefaultWorkspace), m.focused,
                      m.workspace_names),
                  "None", "", <<>>)
         ELSE Res(focus_workspace(m, idx - 1).m, "None", "", <<>>)

\* Monitor::remove_workspace_by_idx
remove_workspace_by_idx(m, idx) ==
    IF idx < Len(m.workspaces)
    THEN Res(Mon(RemoveAt(m.workspaces, idx), m.focused, m.workspace_names),
             "Some", "", <<m.workspaces[idx + 1]>>)
    ELSE IF idx = 0
         THEN Res(Mon(Append(m.workspaces, DefaultWorkspace), m.focused,
                      m.workspace_names),
                  "None", "", <<>>)
         ELSE Res(focus_workspace(m, idx - 1).m, "None", "", <<>>)

\* ensure_workspace_count without the length guard: resize also truncates.
ensure_workspace_count_unguarded(m, ensure_count) ==
    Res(Mon(Resize(m.workspaces, ensure_count), m.focused, m.workspace_names),
        "Ok", "", <<>>)

\* Monitor::ensure_workspace_count
ensure_workspace_count(m, ensure_count) ==
    IF Len(m.workspaces) < ensure_count
    THEN Res(Mon(Resize(m.workspaces, ensure_count), m.focused,
                 m.workspace_names),
             "Ok", "", <<>>)
    ELSE Res(m, "Ok", "", <<>>)

\* Monitor::add_container
add_container(m, c) ==
    IF ~HasFocusedWorkspace(m)
    THEN Res(m, "Err", "there is no workspace", <<>>)
    ELSE Res(Mon([m.workspaces EXCEPT ![m.focused + 1] = WsAddContainer(@, c)],
                 m.focused, m.workspace_names),
             "Ok", "", <<>>)

\* move_container_to_workspace that never follows the container.
move_container_to_workspace_no_follow(m, target_workspace_idx, follow) ==
    IF ~HasFocusedWorkspace(m)
    THEN Res(m, "Err", "there is no workspace", <<>>)
    ELSE
    LET workspace == m.workspaces[m.focused + 1] IN
    IF workspace.maximized
    THEN Res(m, "Err",
             "cannot move native maximized window to another monitor or workspace",
             <<>>)
    ELSE IF WsFocusedContainer(workspace) = <<>>
    THEN Res(m, "Err", "there is no container", <<>>)
    ELSE
    LET container == WsFocusedContainer(workspace)[1]
        removed == [m.workspaces EXCEPT ![m.focused + 1] =
                        WsRemoveFocusedContainer(@)]
        grown == IF target_workspace_idx >= Len(removed)
                 THEN Resize(removed, target_workspace_idx + 1)
                 ELSE removed
        added == [grown EXCEPT ![target_workspace_idx + 1] =
                        WsAddContainer(@, container)]
    IN  Res(Mon(added, m.focused, m.workspace_names), "Ok", "", <<>>)

\* move_container_to_workspace without the maximized-window check.
move_container_to_workspace_no_max_check(m, target_workspace_idx, follow) ==
    IF ~HasFocusedWorkspace(m)
    THEN Res(m, "Err", "there is no workspace", <<>>)
    ELSE
    LET workspace == m.workspaces[m.focused + 1] IN
    IF WsFocusedContainer(workspace) = <<>>
    THEN Res(m, "Err", "there is no container", <<>>)
    ELSE
    LET container == WsFocusedContainer(workspace)[1]
        removed == [m.workspaces EXCEPT ![m.focused + 1] =
                        WsRemoveFocusedContainer(@)]
        grown == IF target_workspace_idx >= Len(removed)
                 THEN Resize(removed, target_workspace_idx + 1)
                 ELSE removed
        added == [grown EXCEPT ![target_workspace_idx + 1] =
                        WsAddContainer(@, container)]
        moved == Mon(added, m.focused, m.workspace_names)
    IN  IF follow
        THEN LET r == focus_workspace(moved, target_workspace_idx)
             IN  Res(r.m, r.ret, r.err, <<>>)
        ELSE Res(moved, "Ok", "", <<>>)

\* move_container_to_workspace that grows the ring for the target before
\* it looks for the focused container.
move_container_to_workspace_grow_first(m, target_workspace_idx, follow) ==
    IF ~HasFocusedWorkspace(m)
    THEN Res(m, "Err", "there is no workspace", <<>>)
    ELSE
    LET workspace == m.workspaces[m.focused + 1] IN
    IF workspace.maximized
    THEN Res(m, "Err",
             "cannot move native maximized window to another monitor or workspace",
             <<>>)
    ELSE IF WsFocusedContainer(workspace) = <<>>
    THEN Res(Mon(IF target_workspace_idx >= Len(m.workspaces)
                 THEN Resize(m.workspaces, target_workspace_idx + 1)
                 ELSE m.workspaces,
                 m.focused, m.workspace_names),
             "Err", "there is no container", <<>>)
    ELSE
    LET container == WsFocusedContainer(workspace)[1]
        removed == [m.workspaces EXCEPT ![m.focused + 1] =
                        WsRemoveFocusedContainer(@)]
        grown == IF target_workspace_idx >= Len(removed)
                 THEN Resize(removed, target_workspace_idx + 1)
                 ELSE removed
        added == [grown EXCEPT ![target_workspace_idx + 1] =
                        WsAddContainer(@, container)]
        moved == Mon(added, m.focused, m.workspace_names)
    IN  IF follow
        THEN LET r == focus_workspace(moved, target_workspace_idx)
             IN  Res(r.m, r.ret, r.err, <<>>)
        ELSE Res(moved, "Ok", "", <<>>)

\* move_container_to_workspace that adds a clone of the focused container
\* to the target and leaves the original in the source workspace.
move_container_to_workspace_copy(m, target_workspace_idx, follow) ==
    IF ~HasFocusedWorkspace(m)
    THEN Res(m, "Err", "there is no workspace", <<>>)
    ELSE
    LET workspace == m.workspaces[m.focused + 1] IN
    IF workspace.maximized
    THEN Res(m, "Err",
             "cannot move native maximized window to another monitor or workspace",
             <<>>)
    ELSE IF WsFocusedContainer(workspace) = <<>>
    THEN Res(m, "Err", "there is no container", <<>>)
    ELSE
    LET container == WsFocusedContainer(workspace)[1]
        grown == IF target_workspace_idx >= Len(m.workspaces)
                 THEN Resize(m.workspaces, target_workspace_idx + 1)
                 ELSE m.workspaces
        added == [grown EXCEPT ![target_workspace_idx + 1] =
                        WsAddContainer(@, container)]
        moved == Mon(added, m.focused, m.workspace_names)
    IN  IF follow
        THEN LET r == focus_workspace(moved, target_workspace_idx)
             IN  Res(r.m, r.ret, r.err, <<>>)
        ELSE Res(moved, "Ok", "", <<>>)

\* move_container_to_workspace that follows by setting the ring's focused
\* index directly instead of calling focus_workspace.
move_container_to_workspace_focus_only(m, target_workspace_idx, follow) ==
    IF ~HasFocusedWorkspace(m)
    THEN Res(m, "Err", "there is no workspace", <<>>)
    ELSE
    LET workspace == m.workspaces[m.focused + 1] IN
    IF workspace.maximized
    THEN Res(m, "Err",
             "cannot move native maximized window to another monitor or workspace",
             <<>>)
    ELSE IF WsFocusedContainer(workspace) = <<>>
    THEN Res(m, "Err", "there is no container", <<>>)
    ELSE
    LET container == WsFocusedContainer(workspace)[1]
        removed == [m.workspaces EXCEPT ![m.focused + 1] =
                        WsRemoveFocusedContainer(@)]
        grown == IF target_workspace_idx >= Len(removed)
                 THEN Resize(removed, target_workspace_idx + 1)
                 ELSE removed
        added == [grown EXCEPT ![target_workspace_idx + 1] =
                        WsAddContainer(@, container)]
    IN  IF follow
        THEN Res(Mon(added, RingFocus(target_workspace_idx), m.workspace_names),
                 "Ok", "", <<>>)
        ELSE Res(Mon(added, m.focused, m.workspace_names), "Ok", "", <<>>)

\* Monitor::move_container_to_workspace
move_container_to_workspace(m, target_workspace_idx, follow) ==
    IF ~HasFocusedWorkspace(m)
    THEN Res(m, "Err", "there is no workspace", <<>>)
    ELSE
    LET workspace == m.workspaces[m.focused + 1] IN
    IF workspace.maximized
    THEN Res(m, "Err",
             "cannot move native maximized window to another monitor or workspace",
             <<>>)
    ELSE IF WsFocusedContainer(workspace) = <<>>
    THEN Res(m, "Err", "there is no container", <<>>)
    ELSE
    LET container == WsFocusedContainer(workspace)[1]
        removed == [m.workspaces EXCEPT ![m.focused + 1] =
                        WsRemoveFocusedContainer(@)]
        grown == IF target_workspace_idx >= Len(removed)
                 THEN Resize(removed, target_workspace_idx + 1)
                 ELSE removed
        added == [grown EXCEPT ![target_workspace_idx + 1] =
                        WsAddContainer(@, container)]
        moved == Mon(added, m.focused, m.workspace_names)
    IN  IF follow
        THEN LET r == focus_workspace(moved, target_workspace_idx)
             IN  Res(r.m, r.ret, r.err, <<>>)
        ELSE Res(moved, "Ok", "", <<>>)

\* Monitor::new_workspace_idx
new_workspace_idx(m) == Len(m.workspaces)

\* Monitor::load_focused_workspace; restore_ok is the outcome of the
\* external Workspace::restore call on the focused workspace.  The loop
\* returns at a failed restore, so later workspaces are not visited.
load_focused_workspace(m, restore_ok) ==
    LET focused_idx == m.focused
        after == [i \in 1..Len(m.workspaces) |->
                    IF i - 1 = focused_idx
                    THEN IF restore_ok
                         THEN [m.workspaces[i] EXCEPT !.visible = TRUE]
                         ELSE m.workspaces[i]
                    ELSE IF restore_ok \/ i - 1 < focused_idx
                         THEN [m.workspaces[i] EXCEPT !.visible = FALSE]
                         ELSE m.workspaces[i]]
    IN  IF HasFocusedWorkspace(m) /\ ~restore_ok
        THEN Res(Mon(after, m.focused, m.workspace_names),
                 "Err", "restore failed", <<>>)
        ELSE Res(Mon(after, m.focused, m.workspace_names), "Ok", "", <<>>)

\* Monitor::update_focused_workspace; update_ok is the outcome of the
\* external Workspace::update call (layout only, no modelled field).
update_focused_workspace(m, update_ok) ==
    IF ~HasFocusedWorkspace(m)
    THEN Res(m, "Err", "there is no workspace", <<>>)
    ELSE IF update_ok THEN Res(m, "Ok", "", <<>>)
         ELSE Res(m, "Err", "update failed", <<>>)

\* --------------------------------------------------------- komorebi-core
\* Sizing::adjust_by without the test that the difference stays >= 0.
adjust_by_no_floor(self, value, adjustment) ==
    IF self = "Increase" THEN value + adjustment
    ELSE IF value > 0 THEN value - adjustment ELSE value

\* Sizing::adjust_by testing value >= 0 instead of value > 0.
adjust_by_from_zero(self, value, adjustment) ==
    IF self = "Increase" THEN value + adjustment
    ELSE IF value >= 0 /\ value - adjustment >= 0
         THEN value - adjustment
         ELSE value

\* Sizing::adjust_by (i32 arithmetic; no value of the model leaves i32).
adjust_by(self, value, adjustment) ==
    IF self = "Increase" THEN value + adjustment
    ELSE IF value > 0 /\ value - adjustment >= 0
         THEN value - adjustment
         ELSE value

\* A dimension (a padding or a size) and the last adjust_by call made on it.
NoSizing ==
    [value |-> 0, self |-> "none", arg |-> 0, adjustment |-> 0, result |-> 0,
     calls |-> 0, only_decrease |-> TRUE]

\* ---- SocketMessage and its JSON form
\* A Rust value of one of the argument types: an integer (usize, i32), a
\* bool, a String, or a variant of a field-less enum (its name in s).
Val(ty, n, str, b) == [ty |-> ty, n |-> n, s |-> str, b |-> b]

\* The field-less enums of lib.rs that are arguments of commands; serde
\* names a variant as it is declared.
EnumVariants ==
    [ApplicationIdentifier |-> {"Exe", "Class", "Title"},
     HidingBehaviour |-> {"Hide", "Minimize"},
     Sizing |-> {"Increase", "Decrease"}]

\* Variants of SocketMessage in the model, each with its argument types in
\* declaration order.
Variants ==
    [Promote |-> <<>>,
     WindowHidingBehaviour |-> <<"HidingBehaviour">>,
     AdjustContainerPadding |-> <<"Sizing", "i32">>,
     EnsureWorkspaces |-> <<"usize", "usize">>,
     FocusWorkspaceNumber |-> <<"usize">>,
     WorkspaceTiling |-> <<"usize", "usize", "bool">>,
     WorkspaceName |-> <<"usize", "usize", "String">>,
     ResizeDelta |-> <<"i32">>,
     WorkspaceRule |-> <<"ApplicationIdentifier", "String", "usize", "usize">>,
     State |-> <<>>,
     MouseFollowsFocus |-> <<"bool">>,
     AddSubscriber |-> <<"String">>]

\* A SocketMessage value.
Msg(variant, args) == [variant |-> variant, args |-> args]

NoMessage == Msg("", <<>>)

\* A JSON value: null, a bool, a number, a string, or an array of those.
Json(k, n, str, b, items) ==
    [k |-> k, n |-> n, s |-> str, b |-> b, items |-> items]

JsonNull == Json("null", 0, "", FALSE, <<>>)

\* serde's Serialize of an argument: integers as numbers, bool as a bool,
\* String and enum variants as strings.
ser_value(v) ==
    IF v.ty \in {"usize", "i32"} THEN Json("num", v.n, "", FALSE, <<>>)
    ELSE IF v.ty = "bool" THEN Json("bool", 0, "", v.b, <<>>)
    ELSE Json("str", 0, v.s, FALSE, <<>>)

\* serde's Deserialize of an argument of type ty: <<v>>, or <<>> on an error.
de_value(ty, j) ==
    IF ty = "usize"
    THEN IF j.k = "num" /\ j.n >= 0 THEN <<Val(ty, j.n, "", FALSE)>> ELSE <<>>
    ELSE IF ty = "i32"
    THEN IF j.k = "num" THEN <<Val(ty, j.n, "", FALSE)>> ELSE <<>>
    ELSE IF ty = "bool"
    THEN IF j.k = "bool" THEN <<Val(ty, 0, "", j.b)>> ELSE <<>>
    ELSE IF ty = "String"
    THEN IF j.k = "str" THEN <<Val(ty, 0, j.s, FALSE)>> ELSE <<>>
    ELSE IF j.k = "str" /\ j.s \in EnumVariants[ty]
         THEN <<Val(ty, 0, j.s, FALSE)>> ELSE <<>>

\* The JSON object of a command: its "type" field and, when present, its
\* "content" field.
Wire(type, has_content, content) ==
    [type |-> type, has_content |-> has_content, content |-> content]

\* as_bytes writing the content of every variant with arguments as an
\* array, also when there is one argument.
as_bytes_always_array(m) ==
    IF Len(m.args) = 0 THEN Wire(m.variant, FALSE, JsonNull)
    ELSE Wire(m.variant, TRUE,
              Json("arr", 0, "", FALSE,
                   [i \in 1..Len(m.args) |-> ser_value(m.args[i])]))

\* SocketMessage::as_bytes: serde_json::to_string of the adjacently tagged
\* enum (tag = "type", content = "content").
as_bytes(m) ==
    IF Len(m.args) = 0 THEN Wire(m.variant, FALSE, JsonNull)
    ELSE IF Len(m.args) = 1 THEN Wire(m.variant, TRUE, ser_value(m.args[1]))
    ELSE Wire(m.variant, TRUE,
              Json("arr", 0, "", FALSE,
                   [i \in 1..Len(m.args) |-> ser_value(m.args[i])]))

\* Result of from_str.
Decoded(ok, m) == [ok |-> ok, msg |-> m]

\* SocketMessage::from_str: serde_json::from_str of the adjacently tagged
\* enum.
from_str(w) ==
    IF w.type \notin DOMAIN Variants THEN Decoded(FALSE, NoMessage)
    ELSE
    LET params == Variants[w.type] IN
    IF Len(params) = 0
    THEN IF w.has_content /\ w.content.k # "null"
         THEN Decoded(FALSE, NoMessage)
         ELSE Decoded(TRUE, Msg(w.type, <<>>))
    ELSE IF ~w.has_content THEN Decoded(FALSE, NoMessage)
    ELSE IF Len(params) = 1
    THEN IF de_value(params[1], w.content) = <<>>
         THEN Decoded(FALSE, NoMessage)
         ELSE Decoded(TRUE, Msg(w.type, de_value(params[1], w.content)))
    ELSE IF \/ w.content.k # "arr"
            \/ Len(w.content.items) # Len(params)
            \/ \E i \in 1..Len(params) :
                    de_value(params[i], w.content.items[i]) = <<>>
         THEN Decoded(FALSE, NoMessage)
         ELSE Decoded(TRUE,
                      Msg(w.type, [i \in 1..Len(params) |->
                                      de_value(params[i], w.content.items[i])[1]]))

\* The control channel: a command, its wire form, the decoding of it.
NoSocket ==
    [phase |-> "idle", foreign |-> FALSE, msg |-> NoMessage,
     wire |-> Wire("", FALSE, JsonNull), decoded |-> Decoded(FALSE, NoMessage)]

\* ------------------------------------------------------------- the state
\* Containers currently held by some workspace.
Held(ws) == UNION {{ws[i].containers[j] : j \in 1..Len(ws[i].containers)} :
                    i \in 1..Len(ws)}

Last(op, idx, follow, r) ==
    [op |-> op, idx |-> idx, follow |-> follow, ret |-> r.ret, err |-> r.err,
     val |-> r.val, plen |-> Len(workspaces), pfocus |-> focused]

NoTrack == [stage |-> 0, k |-> 0, n |-> NoName]

Apply(r) ==
    /\ workspaces' = r.m.workspaces
    /\ focused' = r.m.focused
    /\ workspace_names' = r.m.workspace_names

\* One more call on the monitor; the komorebi-core values are not involved.
Call == ops < MaxOps /\ ops' = ops + 1 /\ UNCHANGED <<sizing, socket>>

\* monitor::new
MonitorInit ==
    /\ workspaces = <<DefaultWorkspace>>
    /\ focused = 0
    /\ workspace_names = [i \in Indices |-> NoName]
    /\ last = [op |-> "new", idx |-> 0, follow |-> FALSE, ret |-> "Ok",
               err |-> "", val |-> <<>>, plen |-> 0, pfocus |-> 0]
    /\ track = NoTrack
    /\ ops = 0

Init == MonitorInit /\ sizing = NoSizing /\ socket = NoSocket

LoadFocusedWorkspace ==
    \E restore_ok \in BOOLEAN :
        /\ Call
        /\ (~HasFocusedWorkspace(M) => restore_ok)
        /\ LET r == load_focused_workspace(M, restore_ok)
           IN  Apply(r) /\ last' = Last("load_focused_workspace", 0, FALSE, r)
        /\ track' = NoTrack

AddContainer ==
    \E c \in ContainerIds \ Held(workspaces) :
        /\ Call
        /\ LET r == add_container(M, c)
           IN  Apply(r) /\ last' = Last("add_container", c, FALSE, r)
        /\ track' = NoTrack

RemoveWorkspaceByIdx ==
    \E idx \in Indices :
        /\ Call
        /\ LET r == remove_workspace_by_idx(M, idx)
           IN  Apply(r) /\ last' = Last("remove_workspace_by_idx", idx, FALSE, r)
        /\ track' = IF track.stage = 1 /\ track.k = idx /\ idx < Len(workspaces)
                    THEN [track EXCEPT !.stage = 2]
                    ELSE NoTrack

EnsureWorkspaceCount ==
    \E n \in Counts :
        /\ Call
        /\ LET r == ensure_workspace_count(M, n)
           IN  Apply(r) /\ last' = Last("ensure_workspace_count", n, FALSE, r)
        /\ track' = NoTrack

MoveContainerToWorkspace ==
    \E idx \in Indices, follow \in BOOLEAN :
        /\ Call
        /\ LET r == move_container_to_workspace(M, idx, follow)
           IN  Apply(r) /\ last' = Last("move_container_to_workspace", idx, follow, r)
        /\ track' = NoTrack

FocusWorkspace ==
    \E idx \in Indices :
        /\ Call
        /\ LET r == focus_workspace(M, idx)
           IN  Apply(r) /\ last' = Last("focus_workspace", idx, FALSE, r)
        /\ track' = IF track.stage = 2 /\ track.k = idx
                    THEN [track EXCEPT !.stage = 3]
                    ELSE NoTrack

NewWorkspaceIdx ==
    /\ Call
    /\ last' = Last("new_workspace_idx", 0, FALSE,
                    Res(M, "Ok", "", <<new_workspace_idx(M)>>))
    /\ track' = NoTrack
    /\ UNCHANGED <<workspaces, focused, workspace_names>>

UpdateFocusedWorkspace ==
    \E update_ok \in BOOLEAN :
        /\ Call
        /\ (~HasFocusedWorkspace(M) => update_ok)
        /\ LET r == update_focused_workspace(M, update_ok)
           IN  Apply(r) /\ last' = Last("update_focused_workspace", 0, FALSE, r)
        /\ track' = NoTrack

\* The dispatcher naming a workspace: the name is set on the workspace at
\* idx and recorded in the persistent map through workspace_names_mut().
SetWorkspaceName ==
    \E idx \in Indices, n \in Names :
        /\ Call
        /\ idx < Len(workspaces)
        /\ workspaces' = [workspaces EXCEPT ![idx + 1] = WsSetName(@, n)]
        /\ workspace_names' = [workspace_names EXCEPT ![idx] = n]
        /\ last' = Last("set_workspace_name", idx, FALSE, Res(M, "Ok", "", <<>>))
        /\ track' = [stage |-> 1, k |-> idx, n |-> n]
        /\ UNCHANGED focused

\* The focused workspace's maximized-window slot being set or cleared.
SetMaximizedWindow ==
    \E b \in BOOLEAN :
        /\ Call
        /\ HasFocusedWorkspace(M)
        /\ workspaces[focused + 1].maximized # b
        /\ workspaces' = [workspaces EXCEPT ![focused + 1].maximized = b]
        /\ last' = Last("set_maximized_window", 0, b, Res(M, "Ok", "", <<>>))
        /\ track' = NoTrack
        /\ UNCHANGED <<focused, workspace_names>>

Next ==
    \/ LoadFocusedWorkspace
    \/ AddContainer
    \/ RemoveWorkspaceByIdx
    \/ EnsureWorkspaceCount
    \/ MoveContainerToWorkspace
    \/ FocusWorkspace
    \/ NewWorkspaceIdx
    \/ UpdateFocusedWorkspace
    \/ SetWorkspaceName
    \/ SetMaximizedWindow

Spec == Init /\ [][Next]_vars

\* ------------------------------------------------ Sizing::adjust_by alone
\* Largest starting dimension, largest adjustment in absolute value, and
\* number of adjust_by calls in one behaviour.
MaxDim == 3
MaxAdjustment == 5
MaxAdjustCalls == 3

InitSizing ==
    /\ MonitorInit
    /\ socket = NoSocket
    /\ \E v \in 0..MaxDim : sizing = [NoSizing EXCEPT !.value = v]

\* The dimension is replaced by self.adjust_by(dimension, adjustment).
AdjustBy ==
    \E self \in {"Increase", "Decrease"},
       adjustment \in (-MaxAdjustment)..MaxAdjustment :
        /\ sizing.calls < MaxAdjustCalls
        /\ sizing' = [value |-> adjust_by(self, sizing.value, adjustment),
                      self |-> self,
                      arg |-> sizing.value,
                      adjustment |-> adjustment,
                      result |-> adjust_by(self, sizing.value, adjustment),
                      calls |-> sizing.calls + 1,
                      only_decrease |-> sizing.only_decrease /\ self = "Decrease"]
        /\ UNCHANGED <<workspaces, focused, workspace_names, last, track, ops,
                       socket>>

NextSizing == AdjustBy

SpecSizing == InitSizing /\ [][NextSizing]_vars

\* ------------------------------------------- the SocketMessage wire form
\* Largest usize argument and largest i32 argument in absolute value.
MaxUsize == 2
MaxI32 == 1

Strings == {"app.exe", "2"}

\* The values of an argument type.
ValuesOf(ty) ==
    IF ty = "usize" THEN {Val(ty, n, "", FALSE) : n \in 0..MaxUsize}
    ELSE IF ty = "i32" THEN {Val(ty, n, "", FALSE) : n \in (-MaxI32)..MaxI32}
    ELSE IF ty = "bool" THEN {Val(ty, 0, "", b) : b \in BOOLEAN}
    ELSE IF ty = "String" THEN {Val(ty, 0, str, FALSE) : str \in Strings}
    ELSE {Val(ty, 0, name, FALSE) : name \in EnumVariants[ty]}

RECURSIVE ArgTuples(_)
ArgTuples(params) ==
    IF params = <<>> THEN {<<>>}
    ELSE {<<v>> \o t : v \in ValuesOf(Head(params)), t \in ArgTuples(Tail(params))}

Messages ==
    UNION {{Msg(variant, args) : args \in ArgTuples(Variants[variant])} :
            variant \in DOMAIN Variants}

\* Tags that name no variant of SocketMessage.
UnknownTags == {"Bogus", "promote", "workspace_rule"}

InitWire == MonitorInit /\ sizing = NoSizing /\ socket = NoSocket

WireUnchanged ==
    UNCHANGED <<workspaces, focused, workspace_names, last, track, ops, sizing>>

\* A client encodes a command and writes it to the channel.
SendMessage ==
    \E m \in Messages :
        /\ socket.phase = "idle"
        /\ socket' = [NoSocket EXCEPT !.phase = "sent", !.msg = m,
                                      !.wire = as_bytes(m)]
        /\ WireUnchanged

\* Something else writes the wire form of a command under a tag that names
\* no variant.
SendUnknownTag ==
    \E m \in Messages, tag \in UnknownTags :
        /\ socket.phase = "idle"
        /\ socket' = [NoSocket EXCEPT !.phase = "sent", !.foreign = TRUE,
                                      !.wire = [as_bytes(m) EXCEPT !.type = tag]]
        /\ WireUnchanged

\* The listener decodes what was written.
ReceiveMessage ==
    /\ socket.phase = "sent"
    /\ socket' = [socket EXCEPT !.phase = "decoded",
                                !.decoded = from_str(socket.wire)]
    /\ WireUnchanged

NextWire == SendMessage \/ SendUnknownTag \/ ReceiveMessage

SpecWire == InitWire /\ [][NextWire]_vars

\* ================================================================ claims
MoveOp == "move_container_to_workspace"
RemoveOp == "remove_workspace_by_idx"
MaximizedErr ==
    "cannot move native maximized window to another monitor or workspace"

\* C1: in every reachable state the monitor has at least one workspace.
C1_AtLeastOneWorkspace == Len(workspaces) >= 1

\* C2: in every reachable state with a non-empty workspace ring the focused
\* workspace index is strictly less than the number of workspaces.
C2_FocusedInBounds == Len(workspaces) > 0 => focused < Len(workspaces)

\* C3: focus_workspace(idx) returns Ok for every idx, and afterwards the
\* focused index is idx, the count is max(previous count, idx + 1) and the
\* focused index addresses an existing workspace.
C3_FocusWorkspace ==
    last.op = "focus_workspace" =>
        /\ last.ret = "Ok"
        /\ focused = last.idx
        /\ Len(workspaces) = Max(last.plen, last.idx + 1)
        /\ focused < Len(workspaces)

\* focus_workspace acted on an index beyond the ring and grew it.
C3_Witness ==
    /\ last.op = "focus_workspace"
    /\ last.idx > last.plen
    /\ last.pfocus # last.idx

\* C4: a name set on the workspace at index k, followed by
\* remove_workspace_by_idx(k) with k in bounds and then focus_workspace(k),
\* leaves the workspace at index k carrying that name.
C4_NamePersists ==
    track.stage = 3 =>
        /\ track.k < Len(workspaces)
        /\ workspaces[track.k + 1].name = track.n

\* The scenario ran to its end and the workspace at k was recreated by growth.
C4_Witness ==
    /\ track.stage = 3
    /\ last.plen <= track.k
    /\ workspaces[track.k + 1].containers = <<>>

\* The focused workspace exists, holds no maximized window and has a
\* focused container.
MovePre ==
    /\ HasFocusedWorkspace(M)
    /\ ~workspaces[focused + 1].maximized
    /\ WsFocusedContainer(workspaces[focused + 1]) # <<>>

ContainerSet(w) == {w.containers[j] : j \in 1..Len(w.containers)}

\* What a successful move guarantees for every target: the call returns
\* Ok, the count is max(previous count, target + 1), the target workspace
\* holds the moved container as its last and focused container, and the
\* monitor focus is the target when follow is set.
MoveCommon ==
    LET c == WsFocusedContainer(workspaces[focused + 1])[1]
        t == last'.idx
    IN  /\ last'.ret = "Ok"
        /\ Len(workspaces') = Max(Len(workspaces), t + 1)
        /\ Len(workspaces'[t + 1].containers) > 0
        /\ workspaces'[t + 1].containers[Len(workspaces'[t + 1].containers)] = c
        /\ WsFocusedContainer(workspaces'[t + 1]) = <<c>>
        /\ (last'.follow => focused' = t)

\* C5 as stated: when the focused workspace has a focused container and no
\* maximized window, move_container_to_workspace succeeds for every target,
\* the container is no longer at its position in the source workspace, the
\* count is max(previous count, target + 1), the target holds the container
\* as its last-added one and the focus is the target when follow is set.
C5_MoveAnyTarget ==
    [][(last'.op = MoveOp /\ MovePre) =>
        LET src == focused + 1
            pos == workspaces[src].focused + 1
            c == workspaces[src].containers[pos]
        IN  /\ MoveCommon
            /\ ~(/\ pos <= Len(workspaces'[src].containers)
                 /\ workspaces'[src].containers[pos] = c)]_vars

\* C5 amended: as C5, but the container leaves the source workspace only
\* when the target differs from the focused workspace index; when the
\* target is the focused workspace itself the container is moved to the
\* end of that same workspace.
C5_MoveOtherTarget ==
    [][(last'.op = MoveOp /\ MovePre) =>
        LET src == focused + 1
            c == WsFocusedContainer(workspaces[src])[1]
        IN  /\ MoveCommon
            /\ (last'.idx # focused => c \notin ContainerSet(workspaces'[src]))
            /\ (last'.idx = focused =>
                    ContainerSet(workspaces'[src]) = ContainerSet(workspaces[src]))]_vars

\* A container was moved with follow to a workspace created by the move,
\* out of a workspace that keeps another container.
C5_Witness ==
    /\ last.op = MoveOp
    /\ last.ret = "Ok"
    /\ last.follow
    /\ last.idx >= last.plen
    /\ focused = last.idx
    /\ Len(workspaces[last.pfocus + 1].containers) = 1
    /\ Len(workspaces[last.idx + 1].containers) = 1

\* C6: with the maximized-window slot of the focused workspace set,
\* move_container_to_workspace returns an error for every target and both
\* values of follow, and workspaces, focus and names are unchanged.
C6_MaximizedBlocksMove ==
    [][(/\ last'.op = MoveOp
        /\ HasFocusedWorkspace(M)
        /\ workspaces[focused + 1].maximized) =>
            /\ last'.ret = "Err"
            /\ last'.err = MaximizedErr
            /\ UNCHANGED <<workspaces, focused, workspace_names>>]_vars

\* A move towards an index beyond the ring was rejected for a maximized
\* window while the focused workspace held a container.
C6_Witness ==
    /\ last.op = MoveOp
    /\ last.err = MaximizedErr
    /\ last.follow
    /\ last.idx >= Len(workspaces)
    /\ workspaces[focused + 1].containers # <<>>

\* C7: remove_workspace_by_idx(idx) with idx in bounds returns the
\* workspace that was at idx, the count drops by exactly one, workspaces
\* before idx keep their index and those after idx move down by one.
C7_RemoveInBounds ==
    [][(last'.op = RemoveOp /\ last'.idx < Len(workspaces)) =>
        LET idx == last'.idx
        IN  /\ last'.ret = "Some"
            /\ last'.val = <<workspaces[idx + 1]>>
            /\ Len(workspaces') = Len(workspaces) - 1
            /\ \A i \in 1..idx : workspaces'[i] = workspaces[i]
            /\ \A i \in (idx + 1)..Len(workspaces') :
                    workspaces'[i] = workspaces[i + 1]]_vars

\* A workspace holding a container was removed from the middle of the ring.
C7_Witness ==
    /\ last.op = RemoveOp
    /\ last.ret = "Some"
    /\ last.idx > 0
    /\ last.idx < last.plen - 1
    /\ last.val[1].containers # <<>>
    /\ last.val[1] # workspaces[last.idx + 1]

SameButName(w1, w2) == [w1 EXCEPT !.name = NoName] = [w2 EXCEPT !.name = NoName]

\* C8: remove_workspace_by_idx(idx) with idx out of bounds returns None
\* and removes no workspace; with idx = 0 exactly one default workspace is
\* appended and the count becomes 1; with idx > 0 the focused index
\* afterwards is idx - 1.
C8_RemoveOutOfBounds ==
    [][(last'.op = RemoveOp /\ last'.idx >= Len(workspaces)) =>
        /\ last'.ret = "None"
        /\ last'.val = <<>>
        /\ Len(workspaces') >= Len(workspaces)
        /\ \A i \in 1..Len(workspaces) : SameButName(workspaces'[i], workspaces[i])
        /\ (last'.idx = 0 => workspaces' = <<DefaultWorkspace>>)
        /\ (last'.idx > 0 => focused' = last'.idx - 1)]_vars

\* A removal request for an index beyond the ring moved the focus.
C8_Witness ==
    /\ last.op = RemoveOp
    /\ last.ret = "None"
    /\ last.idx > 0
    /\ last.plen > 0
    /\ focused = last.idx - 1

InitialMonitor == focused = 0 /\ workspaces = <<DefaultWorkspace>>

\* C9 as stated: the monitor starts at focused index 0 with one empty
\* workspace, and the focused index changes only in a step of
\* focus_workspace or of move_container_to_workspace with follow.
C9_FocusChangesOnlyByFocusOrFollow ==
    [][/\ last.op = "new" => InitialMonitor
       /\ focused' # focused =>
            \/ last'.op = "focus_workspace"
            \/ (last'.op = MoveOp /\ last'.follow)]_vars

\* C9 amended: the focused index changes only in a step of focus_workspace,
\* of move_container_to_workspace with follow, or of remove_workspace_by_idx
\* with an out-of-bounds idx > 0 (which focuses idx - 1).
C9_FocusChangesAlsoByStaleRemove ==
    [][/\ last.op = "new" => InitialMonitor
       /\ focused' # focused =>
            \/ last'.op = "focus_workspace"
            \/ (last'.op = MoveOp /\ last'.follow)
            \/ (/\ last'.op = RemoveOp
                /\ last'.idx > 0
                /\ last'.idx >= Len(workspaces))]_vars

\* A removal request for an out-of-bounds index changed the focused index.
C9_Witness ==
    /\ last.op = RemoveOp
    /\ last.ret = "None"
    /\ focused # last.pfocus

\* C10: ensure_workspace_count(n) leaves max(previous count, n) workspaces,
\* keeps every existing workspace, the focus and the names, and a second
\* call with the same n changes nothing.
C10_EnsureGrowsOnly ==
    [][last'.op = "ensure_workspace_count" =>
        LET after == Mon(workspaces', focused', workspace_names')
        IN  /\ Len(workspaces') = Max(Len(workspaces), last'.idx)
            /\ \A i \in 1..Len(workspaces) : workspaces'[i] = workspaces[i]
            /\ focused' = focused
            /\ workspace_names' = workspace_names
            /\ ensure_workspace_count(after, last'.idx).m = after]_vars

\* ensure_workspace_count was called with a count above the number of
\* workspaces present and grew the ring.
C10_Witness ==
    /\ last.op = "ensure_workspace_count"
    /\ last.idx > last.plen
    /\ last.plen > 0
    /\ Len(workspaces) = last.idx

LoadOp == "load_focused_workspace"

\* Indices of the workspaces whose windows are shown.
VisibleIdx == {i \in 0..(Len(workspaces) - 1) : workspaces[i + 1].visible}

\* C11: after a load_focused_workspace call that returned Ok exactly one
\* workspace of the monitor is visible, and it is the focused one.
C11_ExactlyOneVisible ==
    (last.op = LoadOp /\ last.ret = "Ok") => VisibleIdx = {focused}

\* C12: when restore of the focused workspace fails in
\* load_focused_workspace the failure is returned to the caller and every
\* non-focused workspace has still been hidden, those after the focused
\* one included.
C12_HideNotShortCircuited ==
    (last.op = LoadOp /\ last.ret = "Err") => VisibleIdx \subseteq {focused}

\* C13: add_container never fails: in every reachable state it returns Ok
\* and the container is the last and focused one of the focused workspace.
C13_AddContainerAlwaysOk ==
    last.op = "add_container" =>
        /\ last.ret = "Ok"
        /\ HasFocusedWorkspace(M)
        /\ WsFocusedContainer(workspaces[focused + 1]) = <<last.idx>>

NoContainerErr == "there is no container"

\* C16: when the focused workspace has no focused container and no
\* maximized window, move_container_to_workspace returns an error and
\* workspaces, focus and names are unchanged: no workspace is created, no
\* container moves and the focused index stays even with follow set.
C16_NoContainerMoveFails ==
    [][(/\ last'.op = MoveOp
        /\ HasFocusedWorkspace(M)
        /\ ~workspaces[focused + 1].maximized
        /\ WsFocusedContainer(workspaces[focused + 1]) = <<>>) =>
            /\ last'.ret = "Err"
            /\ last'.err = NoContainerErr
            /\ UNCHANGED <<workspaces, focused, workspace_names>>]_vars

\* A move with follow towards an index beyond the ring was rejected for
\* want of a container, while another workspace held one.
C16_Witness ==
    /\ last.op = MoveOp
    /\ last.err = NoContainerErr
    /\ last.follow
    /\ last.idx >= Len(workspaces)
    /\ Held(workspaces) # {}

\* Number of places in the workspaces of ws at which container c is held.
Occ(ws, c) ==
    Cardinality({p \in (1..Len(ws)) \X (1..MaxContainers) :
                    /\ p[2] <= Len(ws[p[1]].containers)
                    /\ ws[p[1]].containers[p[2]] = c})

\* C17: move_container_to_workspace never duplicates or loses a container:
\* for every target and follow, succeeding or failing, every container is
\* held at as many places after the call as before it, and at one at most.
C17_MoveKeepsContainers ==
    [][last'.op = MoveOp =>
        \A c \in ContainerIds :
            /\ Occ(workspaces', c) = Occ(workspaces, c)
            /\ Occ(workspaces', c) <= 1]_vars

\* A container was moved to the workspace it already was in, next to
\* another container.
C17_Witness ==
    /\ last.op = MoveOp
    /\ last.ret = "Ok"
    /\ last.idx = last.pfocus
    /\ HasFocusedWorkspace(M)
    /\ Len(workspaces[last.idx + 1].containers) = 2

\* The monitor after move_container_to_workspace(t, false) followed by
\* focus_workspace(t), started in the current state.
MoveThenFocus(t) ==
    focus_workspace(move_container_to_workspace(M, t, FALSE).m, t).m

\* C18 as stated: from every state, move_container_to_workspace(t, true)
\* ends in the monitor state in which move_container_to_workspace(t, false)
\* followed by focus_workspace(t) ends.
C18_FollowIsMoveThenFocus ==
    [][(last'.op = MoveOp /\ last'.follow) =>
        Mon(workspaces', focused', workspace_names') = MoveThenFocus(last'.idx)]_vars

\* C18 amended: the two end in the same monitor state whenever the move
\* succeeds.
C18_FollowIsMoveThenFocusOnSuccess ==
    [][(last'.op = MoveOp /\ last'.follow /\ last'.ret = "Ok") =>
        Mon(workspaces', focused', workspace_names') = MoveThenFocus(last'.idx)]_vars

\* A container was moved with follow to a workspace the move created at an
\* index with a recorded name, and the workspace carries that name.
C18_Witness ==
    /\ last.op = MoveOp
    /\ last.follow
    /\ last.ret = "Ok"
    /\ last.idx >= last.plen
    /\ workspace_names[last.idx] # NoName
    /\ workspaces[last.idx + 1].name = workspace_names[last.idx]

\* C19 as stated: remove_workspace_by_idx leaves no more workspaces than
\* there were before the call, except that idx = 0 on an empty ring adds
\* exactly one.
C19_RemoveNeverGrows ==
    last.op = RemoveOp =>
        \/ Len(workspaces) <= last.plen
        \/ (last.idx = 0 /\ last.plen = 0 /\ Len(workspaces) = 1)

\* C19 amended: an in-bounds idx leaves one workspace fewer, idx = 0 on an
\* empty ring leaves one workspace, and an out-of-bounds idx > 0 leaves
\* max(previous count, idx) workspaces: the ring grows when idx is beyond
\* the previous count.
C19_RemoveGrowsOnlyPastCount ==
    last.op = RemoveOp =>
        Len(workspaces) = IF last.idx < last.plen THEN last.plen - 1
                          ELSE IF last.idx = 0 THEN 1
                          ELSE Max(last.plen, last.idx)

\* A removal request for an index beyond the count created a workspace.
C19_Witness ==
    /\ last.op = RemoveOp
    /\ last.plen > 0
    /\ last.idx > last.plen
    /\ Len(workspaces) = last.idx

\* C14: adjust_by matches its reference definition: Increase returns
\* value + adjustment; Decrease returns value - adjustment exactly when
\* value > 0 and the difference is >= 0, and value otherwise; so
\* Decrease(0, 5) = 0, Decrease(3, 5) = 3 and Increase(3, 5) = 8.
C14_AdjustByReference ==
    sizing.self # "none" =>
        /\ sizing.self = "Increase" =>
                sizing.result = sizing.arg + sizing.adjustment
        /\ (sizing.self = "Decrease" /\ sizing.arg >= 1
                /\ sizing.adjustment <= sizing.arg) =>
                sizing.result + sizing.adjustment = sizing.arg
        /\ (sizing.self = "Decrease"
                /\ (sizing.arg < 1 \/ sizing.adjustment > sizing.arg)) =>
                sizing.result = sizing.arg
        /\ (sizing.self = "Decrease" /\ sizing.arg = 0 /\ sizing.adjustment = 5) =>
                sizing.result = 0
        /\ (sizing.self = "Decrease" /\ sizing.arg = 3 /\ sizing.adjustment = 5) =>
                sizing.result = 3
        /\ (sizing.self = "Increase" /\ sizing.arg = 3 /\ sizing.adjustment = 5) =>
                sizing.result = 8

\* Decrease was asked to take 5 from 3 and left the 3.
C14_Witness ==
    /\ sizing.self = "Decrease"
    /\ sizing.arg = 3
    /\ sizing.adjustment = 5
    /\ sizing.result = 3

\* C20: Decrease never makes a non-negative dimension negative, whatever
\* the sign of the adjustment; 0 is a fixed point of Decrease; and a
\* dimension that started non-negative and was only ever decreased is
\* non-negative.
C20_DecreaseStaysNonNegative ==
    /\ (sizing.self = "Decrease" /\ sizing.arg >= 0) => sizing.result >= 0
    /\ (sizing.self = "Decrease" /\ sizing.arg = 0) => sizing.result = 0
    /\ sizing.only_decrease => sizing.value >= 0

\* Several Decrease calls in a row, the last of them on a dimension of 0
\* with a negative adjustment.
C20_Witness ==
    /\ sizing.only_decrease
    /\ sizing.calls >= 2
    /\ sizing.arg = 0
    /\ sizing.adjustment < 0
    /\ sizing.value = 0

\* C15: the wire form of a command names its variant in "type" and holds
\* its arguments in declaration order in "content" (no content for a
\* variant without arguments; the bare argument for one argument; an array
\* otherwise); decoding that wire form yields the command; and a wire form
\* with an unknown tag decodes to an error.
C15_RoundTrip ==
    /\ (socket.phase # "idle" /\ ~socket.foreign) =>
        LET m == socket.msg
            w == socket.wire
        IN  /\ w.type = m.variant
            /\ w.has_content = (Len(m.args) > 0)
            /\ Len(m.args) = 1 => de_value(m.args[1].ty, w.content) = <<m.args[1]>>
            /\ Len(m.args) > 1 =>
                /\ w.content.k = "arr"
                /\ Len(w.content.items) = Len(m.args)
                /\ \A i \in 1..Len(m.args) :
                        de_value(m.args[i].ty, w.content.items[i]) = <<m.args[i]>>
    /\ (socket.phase = "decoded" /\ ~socket.foreign) =>
        /\ socket.decoded.ok
        /\ socket.decoded.msg = socket.msg
    /\ (socket.phase = "decoded" /\ socket.wire.type \notin DOMAIN Variants) =>
        /\ ~socket.decoded.ok
        /\ socket.decoded.msg = NoMessage

\* WorkspaceRule(Exe, "app.exe", 2, 1) was encoded and decoded back.
C15_Witness ==
    /\ socket.phase = "decoded"
    /\ socket.msg = Msg("WorkspaceRule",
                        <<Val("ApplicationIdentifier", 0, "Exe", FALSE),
                          Val("String", 0, "app.exe", FALSE),
                          Val("usize", 2, "", FALSE),
                          Val("usize", 1, "", FALSE)>>)
    /\ socket.decoded.ok
    /\ socket.decoded.msg = socket.msg

====
